---- MODULE Spec2Model ----
(***************************************************************************)
(* Model of app.py: the /search request handler, scrape_case_details, the  *)
(* OCR CAPTCHA solver, extract_case_data and get_actual_pdf_url.           *)
(*                                                                         *)
(* Text is a sequence of one-character strings.  A few fixed literals      *)
(* (labels, URL pieces, fallback words) are kept as single tokens.  The    *)
(* browser, the page, the court's site and the OCR engine are the          *)
(* environment: every call into them chooses its outcome (value returned   *)
(* or exception raised) nondeterministically.                              *)
(***************************************************************************)
EXTENDS Integers, Sequences, FiniteSets, TLC

\* ------------------------------------------------------------------ bounds
NumRuns == 2            \* request-handling threads the model provides
MaxAttemptsArg == 3     \* largest max_attempts the solver is called with

Runs == 1..NumRuns
BrowserIds == 1..NumRuns        \* a handle of 0 means "not created"
PageIds == 1..NumRuns

\* --------------------------------------------------------- program constants
DefaultMaxAttempts == 3     \* solve_captcha_with_ocr(..., max_attempts=3)
MinCaptchaLen == 4          \* len(captcha_text) >= 4
MinYear == 1951             \* year < 1951
CurrentYear == 2026         \* datetime.now().year
DefaultBase == "https://delhihighcourt.nic.in"
SearchPath == "/app/get-case-type-status"

\* ------------------------------------------------------------ Python values
PyNone == <<"<None>">>
NotAvailable == <<"Not available">>
NA == <<"NA">>
Whitespace == {" ", "\n"}

RECURSIVE LStrip(_)
LStrip(s) == IF s # <<>> /\ Head(s) \in Whitespace THEN LStrip(Tail(s)) ELSE s

RECURSIVE RStrip(_)
RStrip(s) ==
  IF s # <<>> /\ s[Len(s)] \in Whitespace THEN RStrip(SubSeq(s, 1, Len(s) - 1)) ELSE s

\* str.strip()
Strip(s) == RStrip(LStrip(s))

DigitVal == [c \in {"0", "1", "2", "3", "4", "5", "6", "7", "8", "9"} |->
               CASE c = "0" -> 0 [] c = "1" -> 1 [] c = "2" -> 2 [] c = "3" -> 3
                 [] c = "4" -> 4 [] c = "5" -> 5 [] c = "6" -> 6 [] c = "7" -> 7
                 [] c = "8" -> 8 [] c = "9" -> 9]
IsDigit(c) == c \in DOMAIN DigitVal

RECURSIVE DigitsValue(_)
DigitsValue(s) ==
  IF s = <<>> THEN 0 ELSE 10 * DigitsValue(SubSeq(s, 1, Len(s) - 1)) + DigitVal[s[Len(s)]]

\* int(text): surrounding whitespace and one sign are accepted, then one or
\* more decimal digits; anything else raises ValueError.
PyInt(text) ==
  LET s == Strip(text)
      signed == s # <<>> /\ Head(s) \in {"+", "-"}
      body == IF signed THEN Tail(s) ELSE s
  IN IF body # <<>> /\ \A i \in 1..Len(body) : IsDigit(body[i])
       THEN [ok |-> TRUE,
             val |-> IF signed /\ Head(s) = "-" THEN 0 - DigitsValue(body)
                     ELSE DigitsValue(body)]
       ELSE [ok |-> FALSE, val |-> 0]

DigitChar(d) == CHOOSE c \in DOMAIN DigitVal : DigitVal[c] = d

\* str(n) for n >= 0
RECURSIVE Digits(_)
Digits(n) == IF n < 10 THEN <<DigitChar(n)>> ELSE Digits(n \div 10) \o <<DigitChar(n % 10)>>

\* ------------------------------------------------------------------- state
VARIABLES
  BASE_URL,   \* os.getenv("BASE_URL", ...), fixed at import
  active,     \* the threads that receive a request in this behaviour
  browsers,   \* browser id -> "none" | "open" | "closed"
  pages,      \* page id -> the page's state
  pc,         \* thread -> position in the code
  form,       \* thread -> request.form as posted
  hd,         \* thread -> locals of search()
  results,    \* thread -> the record handed to render_template
  sc,         \* thread -> locals of scrape_case_details()
  sv,         \* thread -> locals of solve_captcha_with_ocr()
  ex,         \* thread -> locals of extract_case_data()
  gp,         \* thread -> locals of get_actual_pdf_url()
  hist        \* thread -> history of the calls the thread made

vars == <<BASE_URL, active, browsers, pages, pc, form, hd, results, sc, sv, ex, gp, hist>>

\* ------------------------------------------------------- environment inputs
BaseUrls == {<<DefaultBase>>, <<"https://mirror.example">>}

\* the forms posted to /search: two well-formed ones, and every mixture of
\* field values in which some field is blank, malformed or out of range
FormCaseNumbers == {<<>>, <<" ">>, <<"7">>, <<" ", "8">>}
FormCaseTypes == {<<>>, <<" ", " ">>, <<"W">>}
FormFilingYears ==
  {<<>>, <<"x">>, <<"1", "9", "9", "x">>, <<"-", "5">>, <<"1", "9", ".", "5">>,
   Digits(MinYear - 1), Digits(MinYear), <<" ">> \o Digits(CurrentYear),
   Digits(CurrentYear + 1)}
BlankTexts == {<<>>, <<" ">>, <<" ", " ">>}
Post(cn, ct, fy) == [case_number |-> cn, case_type |-> ct, filing_year |-> fy]
FormPosts ==
  {Post(<<"7">>, <<"W">>, Digits(MinYear)),
   Post(<<" ", "8">>, <<"W">>, <<" ">> \o Digits(CurrentYear))}
  \cup {Post(cn, ct, fy) : cn \in FormCaseNumbers \cap BlankTexts,
                           ct \in FormCaseTypes, fy \in FormFilingYears}
  \cup {Post(cn, ct, fy) : cn \in FormCaseNumbers,
                           ct \in FormCaseTypes \cap BlankTexts, fy \in FormFilingYears}
  \cup {Post(cn, ct, fy) : cn \in FormCaseNumbers, ct \in FormCaseTypes,
                           fy \in FormFilingYears \ {Digits(MinYear),
                                                     <<" ">> \o Digits(CurrentYear)}}

\* ------------------------------------------------------------ initial state
NoForm == [case_number |-> <<>>, case_type |-> <<>>, filing_year |-> <<>>]
NoResults == [status |-> <<"<unset>">>, found |-> FALSE]
BlankPage ==
  [browser |-> 0, url |-> <<"about:blank">>, form |-> NoForm,
   captcha_value |-> <<>>, submitted |-> FALSE, gotos |-> 0]
NoImage == [shot |-> 0, cycle |-> 0 - 1]
InitHd == [case_number |-> <<>>, case_type |-> <<>>, filing_year |-> <<>>, errors |-> <<>>]
InitSc == [browser |-> 0, page |-> 0, exc |-> <<>>, captcha_ok |-> FALSE, ret |-> NoResults]
InitSv ==
  [max_attempts |-> 0, iter |-> 0, attempt |-> 0 - 1, img_bytes |-> NoImage,
   captcha_text |-> <<>>, text_src |-> NoImage,
   \* what the OCR engine returned, before lines 191 and 194 rebind captcha_text
   ocr_raw |-> <<>>,
   \* what this call has done so far, and what its current cycle has done
   shots |-> 0, fills |-> 0, clicks |-> 0, cycle_fills |-> 0, cycle_clicks |-> 0,
   \* whether the except clause at 220 has been entered in the current cycle
   cycle_exc |-> FALSE]
InitEx ==
  [parties |-> PyNone, dates |-> PyNone, next_date |-> PyNone, last_date |-> PyNone,
   court_no |-> PyNone, intermediate_url |-> PyNone, pdf_url |-> PyNone]
InitGp == [intermediate_url |-> PyNone, current_url |-> PyNone, actual_pdf_url |-> PyNone]
InitHist ==
  [scrape_called |-> FALSE, solver |-> "not called",
   \* what the probe at 209 found in the latest cycle, and how many cycles
   \* were still to come when the solver returned False
   probe |-> "not taken", left_unused |-> 0,
   extract |-> "not called", url_at_extract |-> PyNone,
   anchor |-> "not looked for", gp |-> "not called", forward |-> "not tried", resolved |-> PyNone,
   back |-> "not tried", timeouts |-> {}]

InitCommon ==
  /\ BASE_URL \in BaseUrls
  /\ browsers = [b \in BrowserIds |-> "none"]
  /\ pages = [p \in PageIds |-> BlankPage]
  /\ pc = [r \in Runs |-> "idle"]
  /\ form = [r \in Runs |-> NoForm]
  /\ hd = [r \in Runs |-> InitHd]
  /\ results = [r \in Runs |-> NoResults]
  /\ sc = [r \in Runs |-> InitSc]
  /\ sv = [r \in Runs |-> InitSv]
  /\ ex = [r \in Runs |-> InitEx]
  /\ gp = [r \in Runs |-> InitGp]
  /\ hist = [r \in Runs |-> InitHist]

Init == InitCommon /\ active = {1}

\* ---------------------------------------------------------- search(), 71-98
\* a range test that starts one year early
ValidationErrors_lowyear(case_number, case_type, filing_year) ==
  LET e1 == IF case_number = <<>> THEN <<"Case number is required">> ELSE <<>>
      e2 == IF case_type = <<>> THEN <<"Case type is required">> ELSE <<>>
      e3 == IF filing_year = <<>> THEN <<"Filing year is required">> ELSE <<>>
      year == PyInt(filing_year)
      e4 == IF ~year.ok THEN <<"Filing year must be a valid number">>
            ELSE IF year.val < MinYear - 1 \/ year.val > CurrentYear
              THEN <<"Filing year must be between 1951 and current_year">>
              ELSE <<>>
  IN e1 \o e2 \o e3 \o e4

\* The errors list built by the validation of lines 78-93.
ValidationErrors(case_number, case_type, filing_year) ==
  LET e1 == IF case_number = <<>> THEN <<"Case number is required">> ELSE <<>>
      e2 == IF case_type = <<>> THEN <<"Case type is required">> ELSE <<>>
      e3 == IF filing_year = <<>> THEN <<"Filing year is required">> ELSE <<>>
      year == PyInt(filing_year)
      e4 == IF ~year.ok THEN <<"Filing year must be a valid number">>
            ELSE IF year.val < MinYear \/ year.val > CurrentYear
              THEN <<"Filing year must be between 1951 and current_year">>
              ELSE <<>>
  IN e1 \o e2 \o e3 \o e4

\* POST /search up to the call of scrape_case_details (or the redirect).
Search(r) ==
  /\ r \in active
  /\ pc[r] = "idle"
  /\ \E post \in FormPosts :
       LET case_number == Strip(post.case_number)
           case_type == Strip(post.case_type)
           filing_year == Strip(post.filing_year)
           errors == ValidationErrors(case_number, case_type, filing_year)
       IN /\ form' = [form EXCEPT ![r] = post]
          /\ hd' = [hd EXCEPT ![r] =
                      [case_number |-> case_number, case_type |-> case_type,
                       filing_year |-> filing_year, errors |-> errors]]
          /\ pc' = [pc EXCEPT ![r] = IF errors # <<>> THEN "redirected" ELSE "launch"]
  /\ UNCHANGED <<BASE_URL, active, browsers, pages, results, sc, sv, ex, gp, hist>>

\* ------------------------------------------- scrape_case_details(), 118-142
Jump(r, l) == pc' = [pc EXCEPT ![r] = l]
Raise(r, e) == sc' = [sc EXCEPT ![r].exc = e]
TimedOut(r, where) == [hist EXCEPT ![r].timeouts = @ \cup {where}]

SearchUrl == BASE_URL \o <<SearchPath>>

\* page.goto(url): on success the page is at url; a goto that raises may or
\* may not have committed the navigation already.
UrlsAfterGoto(p, url, ok) == IF ok THEN {url} ELSE {pages[p].url, url}

\* launch() and new_page() create a new object each time: of the handles not
\* yet given out, thread r gets the one with its own number, or else the lowest
FreeBrowser(r) ==
  IF browsers[r] = "none" THEN r
  ELSE CHOOSE b \in BrowserIds :
         browsers[b] = "none" /\ \A c \in BrowserIds : browsers[c] = "none" => b <= c

\* a new_page that hands out one and the same page every time
FreePage_first(r) == CHOOSE p \in PageIds : \A q \in PageIds : p <= q

FreePage(r) ==
  IF pages[r].browser = 0 THEN r
  ELSE CHOOSE p \in PageIds :
         pages[p].browser = 0 /\ \A q \in PageIds : pages[q].browser = 0 => p <= q

\* 119-121: with sync_playwright() as p: browser = p.chromium.launch(...)
Launch(r) ==
  /\ pc[r] = "launch"
  /\ hist' = [hist EXCEPT ![r].scrape_called = TRUE]
  /\ \/ /\ browsers' = [browsers EXCEPT ![FreeBrowser(r)] = "open"]
        /\ sc' = [sc EXCEPT ![r].browser = FreeBrowser(r)]
        /\ Jump(r, "new_page")
     \/ /\ Raise(r, <<"launch failed">>)
        /\ Jump(r, "pw_exit")
        /\ UNCHANGED browsers
  /\ UNCHANGED <<BASE_URL, active, pages, form, hd, results, sv, ex, gp>>

\* 122: page = browser.new_page(), before the try block is entered
NewPage(r) ==
  /\ pc[r] = "new_page"
  /\ \/ /\ pages' = [pages EXCEPT ![FreePage(r)].browser = sc[r].browser]
        /\ sc' = [sc EXCEPT ![r].page = FreePage(r)]
        /\ Jump(r, "goto_search")
     \/ /\ Raise(r, <<"new_page failed">>)
        /\ Jump(r, "pw_exit")
        /\ UNCHANGED pages
  /\ UNCHANGED <<BASE_URL, active, browsers, form, hd, results, sv, ex, gp, hist>>

\* 124: page.goto(f"{BASE_URL}/app/get-case-type-status", timeout=30000)
GotoSearch(r) ==
  /\ pc[r] = "goto_search"
  /\ \E ok \in BOOLEAN : \E u \in UrlsAfterGoto(sc[r].page, SearchUrl, ok) :
       /\ pages' = [pages EXCEPT ![sc[r].page].url = u, ![sc[r].page].gotos = @ + 1]
       /\ IF ok
            THEN Jump(r, "wait_search") /\ UNCHANGED <<sc, hist>>
            ELSE /\ Raise(r, <<"TimeoutError">>)
                 /\ hist' = TimedOut(r, "search goto")
                 /\ Jump(r, "finally")
  /\ UNCHANGED <<BASE_URL, active, browsers, form, hd, results, sv, ex, gp>>

\* 125: page.wait_for_load_state("networkidle")
WaitSearch(r) ==
  /\ pc[r] = "wait_search"
  /\ \/ Jump(r, "fill_form") /\ UNCHANGED <<sc, hist>>
     \/ /\ Raise(r, <<"TimeoutError">>)
        /\ hist' = TimedOut(r, "search idle")
        /\ Jump(r, "finally")
  /\ UNCHANGED <<BASE_URL, active, browsers, pages, form, hd, results, sv, ex, gp>>

\* 128-130: select_option(case type), fill(case number), select_option(year)
FillForm(r) ==
  /\ pc[r] = "fill_form"
  /\ \/ /\ pages' = [pages EXCEPT ![sc[r].page].form =
                        [case_number |-> hd[r].case_number, case_type |-> hd[r].case_type,
                         filing_year |-> hd[r].filing_year]]
        /\ Jump(r, "handle_captcha")
        /\ UNCHANGED sc
     \/ /\ Raise(r, <<"form fill failed">>)
        /\ Jump(r, "finally")
        /\ UNCHANGED pages
  /\ UNCHANGED <<BASE_URL, active, browsers, form, hd, results, sv, ex, gp, hist>>

\* ------------------------------------------------ handle_captcha(), 231-241
\* 233-241: no CAPTCHA image or input on the page -> True; else the OCR solver
\* is entered with its default max_attempts.
HandleCaptcha(r) ==
  /\ pc[r] = "handle_captcha"
  /\ \/ \E img_count \in 0..1, inp_count \in 0..1 :
          IF img_count = 0 \/ inp_count = 0
            THEN /\ sc' = [sc EXCEPT ![r].captcha_ok = TRUE]
                 /\ hist' = [hist EXCEPT ![r].solver = "no captcha"]
                 /\ Jump(r, "captcha_result")
                 /\ UNCHANGED sv
            ELSE /\ sv' = [sv EXCEPT ![r] = [InitSv EXCEPT !.max_attempts = DefaultMaxAttempts]]
                 /\ hist' = [hist EXCEPT ![r].solver = "running"]
                 /\ Jump(r, "sv_for")
                 /\ UNCHANGED sc
     \/ /\ Raise(r, <<"count failed">>)
        /\ Jump(r, "finally")
        /\ UNCHANGED <<sv, hist>>
  /\ UNCHANGED <<BASE_URL, active, browsers, pages, form, hd, results, ex, gp>>

\* ---------------------------------------- solve_captcha_with_ocr(), 173-228
Letters == {"a", "b", "c", "d", "e", "Z"}
IsAlnum(c) == c \in Letters \/ IsDigit(c)

\* what pytesseract.image_to_string may return for some image
RawOcrOutputs ==
  {<<>>, <<"\n">>, <<"a", "b">>, <<" ", "a", "-", "b", "1", "\n">>, <<"a", "b", "1", "2">>,
   <<"a", " ", "b", "!", "Z", "d", "e">>}

\* 194: ''.join(char for char in captcha_text if char.isalnum())
RECURSIVE KeepAlnum(_)
KeepAlnum(s) ==
  IF s = <<>> THEN <<>>
  ELSE (IF IsAlnum(Head(s)) THEN <<Head(s)>> ELSE <<>>) \o KeepAlnum(Tail(s))

\* a cleaning that trims the text and leaves the rest as it is
CleanOcr_stripOnly(raw) == Strip(raw)

\* 191-194
CleanOcr(raw) == KeepAlnum(Strip(raw))

\* an except clause that raises again: the exception leaves the solver
Caught_reraise(r) ==
  /\ sv' = [sv EXCEPT ![r].cycle_exc = TRUE]
  /\ Jump(r, "finally")

\* 220-225: the except clause, then on to the next iteration
Caught(r) ==
  /\ sv' = [sv EXCEPT ![r].cycle_exc = TRUE]
  /\ Jump(r, "sv_next")

\* 211, 216, 228: return; the solver's locals end with the call
SolverReturnIn(r, value, how, h) ==
  /\ sc' = [sc EXCEPT ![r].captcha_ok = value]
  /\ sv' = [sv EXCEPT ![r] = InitSv]
  /\ hist' = [h EXCEPT ![r].solver = how,
                       ![r].left_unused = IF value THEN 0
                                          ELSE sv[r].max_attempts - sv[r].iter]
  /\ Jump(r, "captcha_result")

SolverReturn(r, value, how) == SolverReturnIn(r, value, how, hist)

\* 177: for attempt in range(max_attempts); 227-228 when the range is used up
SolverFor(r) ==
  /\ pc[r] = "sv_for"
  /\ IF sv[r].iter < sv[r].max_attempts
       THEN /\ sv' = [sv EXCEPT ![r].attempt = sv[r].iter, ![r].iter = @ + 1,
                                ![r].cycle_fills = 0, ![r].cycle_clicks = 0,
                                ![r].cycle_exc = FALSE]
            /\ hist' = [hist EXCEPT ![r].probe = "not taken"]
            /\ Jump(r, "sv_shot")
            /\ UNCHANGED sc
       ELSE SolverReturn(r, FALSE, "exhausted")
  /\ UNCHANGED <<BASE_URL, active, browsers, pages, form, hd, results, ex, gp>>

\* a solver that captures the image once and reads it again on every retry
Screenshot_reuse(r) ==
  /\ pc[r] = "sv_shot"
  /\ \/ /\ sv' = [sv EXCEPT ![r].img_bytes =
                    IF sv[r].shots = 0 THEN [shot |-> 1, cycle |-> sv[r].attempt] ELSE @,
                              ![r].shots = IF sv[r].shots = 0 THEN 1 ELSE @]
        /\ Jump(r, "sv_ocr")
     \/ Caught(r)
  /\ UNCHANGED <<BASE_URL, active, browsers, pages, form, hd, results, sc, ex, gp, hist>>

\* 182: img_bytes = img_locator.screenshot()
Screenshot(r) ==
  /\ pc[r] = "sv_shot"
  /\ \/ /\ sv' = [sv EXCEPT ![r].img_bytes =
                    [shot |-> sv[r].shots + 1, cycle |-> sv[r].attempt],
                              ![r].shots = @ + 1]
        /\ Jump(r, "sv_ocr")
     \/ Caught(r)
  /\ UNCHANGED <<BASE_URL, active, browsers, pages, form, hd, results, sc, ex, gp, hist>>

\* 185-194: preprocess the captured image, run the OCR engine on it, clean;
\* the engine returns one of the given outputs
RecognizeFrom(r, outputs) ==
  /\ pc[r] = "sv_ocr"
  /\ \/ \E raw \in outputs :
          /\ sv' = [sv EXCEPT ![r].ocr_raw = raw,
                              ![r].captcha_text = CleanOcr(raw),
                              ![r].text_src = sv[r].img_bytes]
          /\ Jump(r, "sv_len")
     \/ Caught(r)
  /\ UNCHANGED <<BASE_URL, active, browsers, pages, form, hd, results, sc, ex, gp, hist>>

Recognize(r) == RecognizeFrom(r, RawOcrOutputs)

\* a length test that lets three characters through
CheckLength_offbyone(r) ==
  /\ pc[r] = "sv_len"
  /\ IF Len(sv[r].captcha_text) >= MinCaptchaLen - 1
       THEN Jump(r, "sv_fill")
       ELSE Jump(r, "sv_next")
  /\ UNCHANGED <<BASE_URL, active, browsers, pages, form, hd, results, sc, sv, ex, gp, hist>>

\* 198 and 217-218
CheckLength(r) ==
  /\ pc[r] = "sv_len"
  /\ IF Len(sv[r].captcha_text) >= MinCaptchaLen
       THEN Jump(r, "sv_fill")
       ELSE Jump(r, "sv_next")
  /\ UNCHANGED <<BASE_URL, active, browsers, pages, form, hd, results, sc, sv, ex, gp, hist>>

\* 200: inp_locator.fill(captcha_text)
FillCaptcha(r) ==
  /\ pc[r] = "sv_fill"
  /\ \/ /\ pages' = [pages EXCEPT ![sc[r].page].captcha_value = sv[r].captcha_text]
        /\ sv' = [sv EXCEPT ![r].fills = @ + 1, ![r].cycle_fills = @ + 1]
        /\ Jump(r, "sv_button")
     \/ Caught(r) /\ UNCHANGED pages
  /\ UNCHANGED <<BASE_URL, active, browsers, form, hd, results, sc, ex, gp, hist>>

\* a missing button that only ends the cycle: the loop goes on
FindSubmit_retry(r) ==
  /\ pc[r] = "sv_button"
  /\ \/ \E count \in 0..1 :
          /\ IF count > 0 THEN Jump(r, "sv_click") ELSE Jump(r, "sv_next")
          /\ hist' = [hist EXCEPT ![r].solver = IF count > 0 THEN @ ELSE "no button"]
          /\ UNCHANGED <<sc, sv>>
     \/ Caught(r) /\ UNCHANGED <<sc, hist>>
  /\ UNCHANGED <<BASE_URL, active, browsers, pages, form, hd, results, ex, gp>>

\* 203-204 and 214-216: search_button.count() > 0, else return False
FindSubmit(r) ==
  /\ pc[r] = "sv_button"
  /\ \/ \E count \in 0..1 :
          IF count > 0
            THEN Jump(r, "sv_click") /\ UNCHANGED <<sc, sv, hist>>
            ELSE SolverReturn(r, FALSE, "no button")
     \/ Caught(r) /\ UNCHANGED <<sc, hist>>
  /\ UNCHANGED <<BASE_URL, active, browsers, pages, form, hd, results, ex, gp>>

\* where the site may leave the page after the form is submitted
UrlsAfterSubmit(p) == {pages[p].url, BASE_URL \o <<"/app/case-results">>}

\* 205-206: search_button.click(); time.sleep(3)
ClickSubmit(r) ==
  /\ pc[r] = "sv_click"
  /\ \/ \E u \in UrlsAfterSubmit(sc[r].page) :
          /\ pages' = [pages EXCEPT ![sc[r].page].submitted = TRUE, ![sc[r].page].url = u]
          /\ sv' = [sv EXCEPT ![r].clicks = @ + 1, ![r].cycle_clicks = @ + 1]
          /\ Jump(r, "sv_probe")
     \/ Caught(r) /\ UNCHANGED pages
  /\ UNCHANGED <<BASE_URL, active, browsers, form, hd, results, sc, ex, gp, hist>>

\* a probe whose answer is not looked at: the submitted cycle is a success
Probe_optimistic(r) ==
  /\ pc[r] = "sv_probe"
  /\ \/ \E inp_count \in 0..1, table_count \in 0..1 :
          SolverReturnIn(r, TRUE, "solved",
                         [hist EXCEPT ![r].probe = IF inp_count = 0 \/ table_count > 0
                                                     THEN "accepted" ELSE "rejected"])
     \/ Caught(r) /\ UNCHANGED <<sc, hist>>
  /\ UNCHANGED <<BASE_URL, active, browsers, pages, form, hd, results, ex, gp>>

\* 209-213: inp_locator.count() == 0 or results_table count > 0
Probe(r) ==
  /\ pc[r] = "sv_probe"
  /\ \/ \E inp_count \in 0..1, table_count \in 0..1 :
          IF inp_count = 0 \/ table_count > 0
            THEN SolverReturnIn(r, TRUE, "solved", [hist EXCEPT ![r].probe = "accepted"])
            ELSE /\ hist' = [hist EXCEPT ![r].probe = "rejected"]
                 /\ Jump(r, "sv_next")
                 /\ UNCHANGED <<sc, sv>>
     \/ Caught(r) /\ UNCHANGED <<sc, hist>>
  /\ UNCHANGED <<BASE_URL, active, browsers, pages, form, hd, results, ex, gp>>

\* 223-225: back-off sleep, then the next iteration of the for loop
NextAttempt(r) ==
  /\ pc[r] = "sv_next"
  /\ Jump(r, "sv_for")
  /\ UNCHANGED <<BASE_URL, active, browsers, pages, form, hd, results, sc, sv, ex, gp, hist>>

\* a caller that goes on whatever handle_captcha returned
CaptchaResult_ignore(r) ==
  /\ pc[r] = "captcha_result"
  /\ Jump(r, "wait_results")
  /\ UNCHANGED <<BASE_URL, active, browsers, pages, form, hd, results, sc, sv, ex, gp, hist>>

\* 133-134: if not handle_captcha(page): raise Exception("CAPTCHA not solved")
CaptchaResult(r) ==
  /\ pc[r] = "captcha_result"
  /\ IF sc[r].captcha_ok
       THEN Jump(r, "wait_results") /\ UNCHANGED sc
       ELSE Raise(r, <<"CAPTCHA not solved">>) /\ Jump(r, "finally")
  /\ UNCHANGED <<BASE_URL, active, browsers, pages, form, hd, results, sv, ex, gp, hist>>

\* a wait for the results that gives up silently and goes on
WaitResults_swallow(r) ==
  /\ pc[r] = "wait_results"
  /\ \/ Jump(r, "ex_parties") /\ UNCHANGED hist
     \/ Jump(r, "ex_parties") /\ hist' = TimedOut(r, "results idle")
  /\ UNCHANGED <<BASE_URL, active, browsers, pages, form, hd, results, sc, sv, ex, gp>>

\* 137-138: page.wait_for_load_state("networkidle"); time.sleep(2)
WaitResults(r) ==
  /\ pc[r] = "wait_results"
  /\ \/ Jump(r, "ex_parties") /\ UNCHANGED <<sc, hist>>
     \/ /\ Raise(r, <<"TimeoutError">>)
        /\ hist' = TimedOut(r, "results idle")
        /\ Jump(r, "finally")
  /\ UNCHANGED <<BASE_URL, active, browsers, pages, form, hd, results, sv, ex, gp>>

\* -------------------------------------------- extract_case_data(), 244-297
NextLabel == "NEXT DATE:"
LastLabel == "Last Date:"
CourtLabel == "COURT NO:"

\* the text the third and fourth cell of the first result row may hold
PartiesTexts == {<<>>, <<" ", "\n">>, <<" ", "A", " ", "v", " ", "B", "\n">>}
DatesTexts ==
  {<<>>, <<"x">>,
   <<NextLabel, " ", "1", "2", " ", " ", LastLabel, " ", "1", "0", " ", " ", CourtLabel, " ", "5">>,
   <<NextLabel, LastLabel, CourtLabel>>,
   <<" ", NextLabel, "1", "\n", LastLabel, "\n", CourtLabel, "3", "\n", "x">>,
   <<NextLabel, "1", "\n", "2", LastLabel, "3", CourtLabel, "4">>}

\* 57-63: safe_text; the read either yields the element's text, stripped, or
\* raises (no such element, timeout) and the fallback is returned.
SafeTexts(texts) == {Strip(t) : t \in texts} \cup {NotAvailable}

\* \s* from position p: the first position at or after p that holds no whitespace
RECURSIVE SkipWs(_, _)
SkipWs(s, p) == IF p <= Len(s) /\ s[p] \in Whitespace THEN SkipWs(s, p + 1) ELSE p

\* .* from position p: the first position at or after p that holds a newline
RECURSIVE DotEnd(_, _)
DotEnd(s, p) == IF p <= Len(s) /\ s[p] # "\n" THEN DotEnd(s, p + 1) ELSE p

Min(S) == CHOOSE x \in S : \A y \in S : x <= y

\* ends q of a lazy group (.*?) starting after the whitespace at p, such that \s*
\* and then the label follow
LazyEnds(s, p, label) ==
  {q \in SkipWs(s, p)..DotEnd(s, SkipWs(s, p)) :
     SkipWs(s, q) <= Len(s) /\ s[SkipWs(s, q)] = label}

\* 263-266: re.search(r'NEXT DATE:\s*(.*?)\s*Last Date:\s*(.*?)\s*COURT NO:\s*(.*)', dates)
ReSearchDates(s) ==
  LET Ends1(i) == {q \in LazyEnds(s, i + 1, LastLabel) :
                     LazyEnds(s, SkipWs(s, q) + 1, CourtLabel) # {}}
      starts == {i \in 1..Len(s) : s[i] = NextLabel /\ Ends1(i) # {}}
  IN IF starts = {} THEN [matched |-> FALSE]
     ELSE LET i == Min(starts)
              p1 == SkipWs(s, i + 1)
              q1 == Min(Ends1(i))
              p2 == SkipWs(s, SkipWs(s, q1) + 1)
              q2 == Min(LazyEnds(s, SkipWs(s, q1) + 1, CourtLabel))
              p3 == SkipWs(s, SkipWs(s, q2) + 1)
          IN [matched |-> TRUE,
              group1 |-> SubSeq(s, p1, q1 - 1),
              group2 |-> SubSeq(s, p2, q2 - 1),
              group3 |-> SubSeq(s, p3, DotEnd(s, p3) - 1)]

\* an  or  that lets the empty string through
OrElse_keep(value, default) == value

\* Python's  value or default  on strings
OrElse(value, default) == IF value = <<>> THEN default ELSE value

\* a parser whose fallback for the next date is the one of an empty group
ParseDates_naOnMiss(dates) ==
  LET date_match == ReSearchDates(dates)
  IN IF date_match.matched
       THEN [next_date |-> OrElse(Strip(date_match.group1), NA),
             last_date |-> OrElse(Strip(date_match.group2), NotAvailable),
             court_no |-> OrElse(Strip(date_match.group3), NotAvailable)]
       ELSE [next_date |-> NA, last_date |-> NotAvailable, court_no |-> NotAvailable]

\* 258-271
ParseDates(dates) ==
  LET date_match == ReSearchDates(dates)
  IN IF date_match.matched
       THEN [next_date |-> OrElse(Strip(date_match.group1), NA),
             last_date |-> OrElse(Strip(date_match.group2), NotAvailable),
             court_no |-> OrElse(Strip(date_match.group3), NotAvailable)]
       ELSE [next_date |-> NotAvailable, last_date |-> NotAvailable,
             court_no |-> NotAvailable]

\* 248-254: parties = safe_text(row, "td:nth-child(3)"), the cell holding one
\* of the given texts
ReadPartiesFrom(r, texts) ==
  /\ pc[r] = "ex_parties"
  /\ \E text \in SafeTexts(texts) :
       ex' = [ex EXCEPT ![r] = [InitEx EXCEPT !.parties = text]]
  /\ hist' = [hist EXCEPT ![r].extract = "running",
                          ![r].url_at_extract = pages[sc[r].page].url]
  /\ Jump(r, "ex_dates")
  /\ UNCHANGED <<BASE_URL, active, browsers, pages, form, hd, results, sc, sv, gp>>

ReadParties(r) == ReadPartiesFrom(r, PartiesTexts)

\* 255-271: dates = safe_text(row, "td:nth-child(4)") and its parsing, the
\* cell holding one of the given texts
ReadDatesFrom(r, texts) ==
  /\ pc[r] = "ex_dates"
  /\ \E text \in SafeTexts(texts) :
       ex' = [ex EXCEPT ![r].dates = text,
                        ![r].next_date = ParseDates(text).next_date,
                        ![r].last_date = ParseDates(text).last_date,
                        ![r].court_no = ParseDates(text).court_no]
  /\ Jump(r, "ex_pdf")
  /\ UNCHANGED <<BASE_URL, active, browsers, pages, form, hd, results, sc, sv, gp, hist>>

ReadDates(r) == ReadDatesFrom(r, DatesTexts)

\* an extractor that follows the link whether or not the anchor is there
FindPdfLink_always(r) ==
  /\ pc[r] = "ex_pdf"
  /\ \/ \E count \in 0..1 :
          /\ hist' = [hist EXCEPT ![r].anchor = IF count > 0 THEN "present" ELSE "absent"]
          /\ Jump(r, "ex_href")
          /\ UNCHANGED <<sc, ex>>
     \/ /\ Raise(r, <<"count failed">>)
        /\ ex' = [ex EXCEPT ![r] = InitEx]
        /\ hist' = [hist EXCEPT ![r].extract = "raised"]
        /\ Jump(r, "finally")
  /\ UNCHANGED <<BASE_URL, active, browsers, pages, form, hd, results, sv, gp>>

\* 274-277 and 283-284: pdf_url = None; if pdf_link_element.count() > 0;
\* the count, like the href read after it, is not inside any try block
FindPdfLink(r) ==
  /\ pc[r] = "ex_pdf"
  /\ \/ \E count \in 0..1 :
          /\ hist' = [hist EXCEPT ![r].anchor = IF count > 0 THEN "present" ELSE "absent"]
          /\ IF count > 0 THEN Jump(r, "ex_href") ELSE Jump(r, "ex_return")
          /\ UNCHANGED <<sc, ex>>
     \/ /\ Raise(r, <<"count failed">>)
        /\ ex' = [ex EXCEPT ![r] = InitEx]
        /\ hist' = [hist EXCEPT ![r].extract = "raised"]
        /\ Jump(r, "finally")
  /\ UNCHANGED <<BASE_URL, active, browsers, pages, form, hd, results, sv, gp>>

\* the href attribute an anchor may carry (None when it has none)
AbsoluteHref == <<"h", "t", "t", "p", ":", "/", "/", "x", "/", "f">>
Hrefs == {PyNone, <<>>, <<"/", "f">>, <<"f">>, AbsoluteHref}

\* 278-282: intermediate_url = pdf_link_element.get_attribute("href"), which
\* is not inside any try block, then the call of get_actual_pdf_url
ReadIntermediateHrefFrom(r, hrefs) ==
  /\ pc[r] = "ex_href"
  /\ \/ \E href \in hrefs :
          /\ ex' = [ex EXCEPT ![r].intermediate_url = href]
          /\ gp' = [gp EXCEPT ![r] = [InitGp EXCEPT !.intermediate_url = href]]
          /\ hist' = [hist EXCEPT ![r].gp = "running"]
          /\ Jump(r, "gp_enter")
          /\ UNCHANGED sc
     \/ /\ Raise(r, <<"get_attribute failed">>)
        /\ ex' = [ex EXCEPT ![r] = InitEx]
        /\ hist' = [hist EXCEPT ![r].extract = "raised"]
        /\ Jump(r, "finally")
        /\ UNCHANGED gp
  /\ UNCHANGED <<BASE_URL, active, browsers, pages, form, hd, results, sv>>

ReadIntermediateHref(r) == ReadIntermediateHrefFrom(r, Hrefs)

\* ------------------------------------------- get_actual_pdf_url(), 299-349
Truthy(u) == u # PyNone /\ u # <<>>
StartsWith(s, prefix) == Len(s) >= Len(prefix) /\ SubSeq(s, 1, Len(prefix)) = prefix

\* 304-307 and 329-332: the site's address is written out in both places
AbsoluteUrl(u) ==
  IF Truthy(u) /\ StartsWith(u, <<"/">>) THEN <<DefaultBase>> \o u
  ELSE IF Truthy(u) /\ ~StartsWith(u, <<"h", "t", "t", "p">>) THEN <<DefaultBase, "/">> \o u
  ELSE u

\* 347-349: except Exception: return None, back in extract_case_data at 282
GpExcept(r) ==
  /\ ex' = [ex EXCEPT ![r].pdf_url = PyNone]
  /\ gp' = [gp EXCEPT ![r] = InitGp]
  /\ Jump(r, "ex_return")

\* 302-312: make intermediate_url absolute, remember page.url
GpEnter(r) ==
  /\ pc[r] = "gp_enter"
  /\ gp' = [gp EXCEPT ![r].intermediate_url = AbsoluteUrl(@),
                      ![r].current_url = pages[sc[r].page].url]
  /\ Jump(r, "gp_goto")
  /\ UNCHANGED <<BASE_URL, active, browsers, pages, form, hd, results, sc, sv, ex, hist>>

\* 315: page.goto(intermediate_url, timeout=15000); None or "" is refused
\* before any navigation starts
GpGoto(r) ==
  /\ pc[r] = "gp_goto"
  /\ IF ~Truthy(gp[r].intermediate_url)
       THEN /\ GpExcept(r)
            /\ hist' = [hist EXCEPT ![r].gp = "raised"]
            /\ UNCHANGED pages
       ELSE \E ok \in BOOLEAN :
              \E u \in UrlsAfterGoto(sc[r].page, gp[r].intermediate_url, ok) :
                /\ pages' = [pages EXCEPT ![sc[r].page].url = u,
                                          ![sc[r].page].gotos = @ + 1]
                /\ IF ok
                     THEN /\ hist' = [hist EXCEPT ![r].forward = "ok"]
                          /\ Jump(r, "gp_wait")
                          /\ UNCHANGED <<ex, gp>>
                     ELSE /\ hist' = [TimedOut(r, "intermediate goto") EXCEPT
                                        ![r].forward = "failed", ![r].gp = "raised"]
                          /\ GpExcept(r)
  /\ UNCHANGED <<BASE_URL, active, browsers, form, hd, results, sc, sv>>

\* 316-317: page.wait_for_load_state("networkidle"); time.sleep(2)
GpWait(r) ==
  /\ pc[r] = "gp_wait"
  /\ \/ Jump(r, "gp_find") /\ UNCHANGED <<ex, gp, hist>>
     \/ /\ hist' = [TimedOut(r, "intermediate idle") EXCEPT ![r].gp = "raised"]
        /\ GpExcept(r)
  /\ UNCHANGED <<BASE_URL, active, browsers, pages, form, hd, results, sc, sv>>

\* 321-325 and 335-336: actual_pdf_url = None; if actual_pdf_element.count() > 0
GpFindPdf(r) ==
  /\ pc[r] = "gp_find"
  /\ \/ \E count \in 0..1 :
          IF count > 0
            THEN Jump(r, "gp_href") /\ UNCHANGED <<ex, gp, hist>>
            ELSE /\ gp' = [gp EXCEPT ![r].actual_pdf_url = PyNone]
                 /\ hist' = [hist EXCEPT ![r].resolved = PyNone]
                 /\ Jump(r, "gp_back")
                 /\ UNCHANGED ex
     \/ /\ hist' = [hist EXCEPT ![r].gp = "raised"]
        /\ GpExcept(r)
  /\ UNCHANGED <<BASE_URL, active, browsers, pages, form, hd, results, sc, sv>>

\* 326-334: actual_pdf_url = get_attribute("href"), made absolute
GpReadHrefFrom(r, hrefs) ==
  /\ pc[r] = "gp_href"
  /\ \/ \E href \in hrefs :
          /\ gp' = [gp EXCEPT ![r].actual_pdf_url = AbsoluteUrl(href)]
          /\ hist' = [hist EXCEPT ![r].resolved = AbsoluteUrl(href)]
          /\ Jump(r, "gp_back")
          /\ UNCHANGED ex
     \/ /\ hist' = [hist EXCEPT ![r].gp = "raised"]
        /\ GpExcept(r)
  /\ UNCHANGED <<BASE_URL, active, browsers, pages, form, hd, results, sc, sv>>

GpReadHref(r) == GpReadHrefFrom(r, Hrefs)

\* a return navigation without its own try: a failure reaches the outer except
GpBackGoto_noInnerTry(r) ==
  /\ pc[r] = "gp_back"
  /\ \E ok \in BOOLEAN : \E u \in UrlsAfterGoto(sc[r].page, gp[r].current_url, ok) :
       /\ pages' = [pages EXCEPT ![sc[r].page].url = u, ![sc[r].page].gotos = @ + 1]
       /\ IF ok
            THEN Jump(r, "gp_back_wait") /\ UNCHANGED <<hist, ex, gp>>
            ELSE /\ hist' = [TimedOut(r, "return goto") EXCEPT ![r].back = "failed"]
                 /\ GpExcept(r)
  /\ UNCHANGED <<BASE_URL, active, browsers, form, hd, results, sc, sv>>

\* 339-340 and 342-343: try: page.goto(current_url, timeout=10000)
GpBackGoto(r) ==
  /\ pc[r] = "gp_back"
  /\ \E ok \in BOOLEAN : \E u \in UrlsAfterGoto(sc[r].page, gp[r].current_url, ok) :
       /\ pages' = [pages EXCEPT ![sc[r].page].url = u, ![sc[r].page].gotos = @ + 1]
       /\ IF ok
            THEN Jump(r, "gp_back_wait") /\ UNCHANGED hist
            ELSE /\ hist' = [TimedOut(r, "return goto") EXCEPT ![r].back = "failed"]
                 /\ Jump(r, "gp_done")
  /\ UNCHANGED <<BASE_URL, active, browsers, form, hd, results, sc, sv, ex, gp>>

\* 341-343: page.wait_for_load_state("networkidle") inside the inner try
GpBackWait(r) ==
  /\ pc[r] = "gp_back_wait"
  /\ \/ hist' = [hist EXCEPT ![r].back = "ok"]
     \/ hist' = [TimedOut(r, "return idle") EXCEPT ![r].back = "failed"]
  /\ Jump(r, "gp_done")
  /\ UNCHANGED <<BASE_URL, active, browsers, pages, form, hd, results, sc, sv, ex, gp>>

\* 345: return actual_pdf_url, assigned to pdf_url at 282
GpDone(r) ==
  /\ pc[r] = "gp_done"
  /\ ex' = [ex EXCEPT ![r].pdf_url = gp[r].actual_pdf_url]
  /\ gp' = [gp EXCEPT ![r] = InitGp]
  /\ hist' = [hist EXCEPT ![r].gp = "returned"]
  /\ Jump(r, "ex_return")
  /\ UNCHANGED <<BASE_URL, active, browsers, pages, form, hd, results, sc, sv>>

\* 286-297: the record extract_case_data returns
CaseRecord(r) ==
  [case_number |-> hd[r].case_number, case_type |-> hd[r].case_type,
   filing_year |-> hd[r].filing_year, parties |-> ex[r].parties,
   next_hearing_date |-> ex[r].next_date, last_hearing_date |-> ex[r].last_date,
   court_no |-> ex[r].court_no, pdf_url |-> ex[r].pdf_url,
   status |-> <<"Case details extracted">>, found |-> TRUE]

\* 286-297 and 140: return extract_case_data(...)
ExtractReturn(r) ==
  /\ pc[r] = "ex_return"
  /\ sc' = [sc EXCEPT ![r].ret = CaseRecord(r)]
  /\ ex' = [ex EXCEPT ![r] = InitEx]
  /\ hist' = [hist EXCEPT ![r].extract = "returned"]
  /\ Jump(r, "finally")
  /\ UNCHANGED <<BASE_URL, active, browsers, pages, form, hd, results, sv, gp>>

\* a close that is reached only when the try block ended without an exception
Finally_onlyOnSuccess(r) ==
  /\ pc[r] = "finally"
  /\ browsers' = [browsers EXCEPT ![sc[r].browser] = IF sc[r].exc = <<>> THEN "closed" ELSE @]
  /\ Jump(r, "pw_exit")
  /\ UNCHANGED <<BASE_URL, active, pages, form, hd, results, sc, sv, ex, gp, hist>>

\* 141-142: finally: browser.close()
Finally(r) ==
  /\ pc[r] = "finally"
  /\ browsers' = [browsers EXCEPT ![sc[r].browser] = "closed"]
  /\ Jump(r, "pw_exit")
  /\ UNCHANGED <<BASE_URL, active, pages, form, hd, results, sc, sv, ex, gp, hist>>

\* 119: leaving the with block stops the Playwright driver, which ends every
\* browser it launched that is still running
PlaywrightExit(r) ==
  /\ pc[r] = "pw_exit"
  /\ browsers' = [b \in BrowserIds |->
                    IF b = sc[r].browser /\ browsers[b] = "open" THEN "killed"
                    ELSE browsers[b]]
  /\ Jump(r, "scrape_done")
  /\ UNCHANGED <<BASE_URL, active, pages, form, hd, results, sc, sv, ex, gp, hist>>

\* 107-113: the record built when scrape_case_details raised
FailureRecord(r) ==
  [case_number |-> hd[r].case_number, case_type |-> hd[r].case_type,
   filing_year |-> hd[r].filing_year, status |-> <<"Technical failure">>,
   found |-> FALSE]

\* 101-115: results = scrape_case_details(...) or the except clause, then render
SearchFinish(r) ==
  /\ pc[r] = "scrape_done"
  /\ results' = [results EXCEPT ![r] =
                   IF sc[r].exc # <<>> THEN FailureRecord(r) ELSE sc[r].ret]
  /\ Jump(r, "rendered")
  /\ UNCHANGED <<BASE_URL, active, browsers, pages, form, hd, sc, sv, ex, gp, hist>>

\* ------------------------------------------------------------ specification
Step(r) ==
  \/ Search(r) \/ Launch(r) \/ NewPage(r) \/ GotoSearch(r) \/ WaitSearch(r)
  \/ FillForm(r) \/ HandleCaptcha(r) \/ SolverFor(r) \/ Screenshot(r)
  \/ Recognize(r) \/ CheckLength(r) \/ FillCaptcha(r) \/ FindSubmit(r)
  \/ ClickSubmit(r) \/ Probe(r) \/ NextAttempt(r) \/ CaptchaResult(r)
  \/ WaitResults(r) \/ ReadParties(r) \/ ReadDates(r) \/ FindPdfLink(r)
  \/ ReadIntermediateHref(r) \/ GpEnter(r) \/ GpGoto(r) \/ GpWait(r)
  \/ GpFindPdf(r) \/ GpReadHref(r) \/ GpBackGoto(r) \/ GpBackWait(r)
  \/ GpDone(r) \/ ExtractReturn(r) \/ Finally(r) \/ PlaywrightExit(r)
  \/ SearchFinish(r)

Next ==
  \/ \E r \in Runs : Search(r)
  \/ \E r \in Runs : Launch(r)
  \/ \E r \in Runs : NewPage(r)
  \/ \E r \in Runs : GotoSearch(r)
  \/ \E r \in Runs : WaitSearch(r)
  \/ \E r \in Runs : FillForm(r)
  \/ \E r \in Runs : HandleCaptcha(r)
  \/ \E r \in Runs : SolverFor(r)
  \/ \E r \in Runs : Screenshot(r)
  \/ \E r \in Runs : Recognize(r)
  \/ \E r \in Runs : CheckLength(r)
  \/ \E r \in Runs : FillCaptcha(r)
  \/ \E r \in Runs : FindSubmit(r)
  \/ \E r \in Runs : ClickSubmit(r)
  \/ \E r \in Runs : Probe(r)
  \/ \E r \in Runs : NextAttempt(r)
  \/ \E r \in Runs : CaptchaResult(r)
  \/ \E r \in Runs : WaitResults(r)
  \/ \E r \in Runs : ReadParties(r)
  \/ \E r \in Runs : ReadDates(r)
  \/ \E r \in Runs : FindPdfLink(r)
  \/ \E r \in Runs : ReadIntermediateHref(r)
  \/ \E r \in Runs : GpEnter(r)
  \/ \E r \in Runs : GpGoto(r)
  \/ \E r \in Runs : GpWait(r)
  \/ \E r \in Runs : GpFindPdf(r)
  \/ \E r \in Runs : GpReadHref(r)
  \/ \E r \in Runs : GpBackGoto(r)
  \/ \E r \in Runs : GpBackWait(r)
  \/ \E r \in Runs : GpDone(r)
  \/ \E r \in Runs : ExtractReturn(r)
  \/ \E r \in Runs : Finally(r)
  \/ \E r \in Runs : PlaywrightExit(r)
  \/ \E r \in Runs : SearchFinish(r)

Spec == Init /\ [][Next]_vars

\* solve_captcha_with_ocr on its own: called on a page whose form is filled,
\* with any max_attempts from 1 up
SolverInit ==
  /\ BASE_URL \in BaseUrls
  /\ active = {1}
  /\ browsers = [b \in BrowserIds |-> IF b = 1 THEN "open" ELSE "none"]
  /\ pages = [p \in PageIds |->
                IF p = 1
                  THEN [BlankPage EXCEPT !.browser = 1, !.url = SearchUrl, !.gotos = 1,
                                         !.form = Post(<<"7">>, <<"W">>, Digits(MinYear))]
                  ELSE BlankPage]
  /\ pc = [r \in Runs |-> IF r = 1 THEN "sv_for" ELSE "idle"]
  /\ form = [r \in Runs |-> IF r = 1 THEN Post(<<"7">>, <<"W">>, Digits(MinYear)) ELSE NoForm]
  /\ hd = [r \in Runs |->
             IF r = 1
               THEN [case_number |-> <<"7">>, case_type |-> <<"W">>,
                     filing_year |-> Digits(MinYear), errors |-> <<>>]
               ELSE InitHd]
  /\ results = [r \in Runs |-> NoResults]
  /\ sc = [r \in Runs |-> IF r = 1 THEN [InitSc EXCEPT !.browser = 1, !.page = 1] ELSE InitSc]
  /\ \E m \in 1..MaxAttemptsArg :
       sv = [r \in Runs |-> IF r = 1 THEN [InitSv EXCEPT !.max_attempts = m] ELSE InitSv]
  /\ ex = [r \in Runs |-> InitEx]
  /\ gp = [r \in Runs |-> InitGp]
  /\ hist = [r \in Runs |->
               IF r = 1 THEN [InitHist EXCEPT !.scrape_called = TRUE, !.solver = "running"]
               ELSE InitHist]

SolverNext ==
  \/ \E r \in Runs : SolverFor(r)
  \/ \E r \in Runs : Screenshot(r)
  \/ \E r \in Runs : Recognize(r)
  \/ \E r \in Runs : CheckLength(r)
  \/ \E r \in Runs : FillCaptcha(r)
  \/ \E r \in Runs : FindSubmit(r)
  \/ \E r \in Runs : ClickSubmit(r)
  \/ \E r \in Runs : Probe(r)
  \/ \E r \in Runs : NextAttempt(r)

SolverSpec == SolverInit /\ [][SolverNext]_vars

\* Every call into the browser carries a timeout and every sleep is finite,
\* so a thread that can take a step eventually takes one.
FairSpec == Spec /\ \A r \in Runs : WF_vars(Step(r))

\* ------------------------------------------------------------------ claims
InCycle(r) == pc[r] \in {"sv_shot", "sv_ocr", "sv_len", "sv_fill", "sv_button",
                         "sv_click", "sv_probe", "sv_next"}
\* positions of a cycle at which captcha_text has been recognized in that cycle
TextInUse(r) == pc[r] \in {"sv_len", "sv_fill", "sv_button", "sv_click", "sv_probe"}

\* C1: one call of solve_captcha_with_ocr starts at most max_attempts cycles,
\* takes at most max_attempts screenshots and clicks submit at most
\* max_attempts times; the image handed to the OCR engine, and so the text
\* that is length-checked, filled and submitted, was captured in the current
\* cycle and is the latest capture.
C1_BoundedFreshCycles ==
  \A r \in Runs :
    /\ sv[r].iter <= sv[r].max_attempts
    /\ sv[r].shots <= sv[r].max_attempts
    /\ sv[r].clicks <= sv[r].max_attempts
    /\ pc[r] = "sv_ocr" =>
         sv[r].img_bytes.cycle = sv[r].attempt /\ sv[r].img_bytes.shot = sv[r].shots
    /\ TextInUse(r) =>
         sv[r].text_src.cycle = sv[r].attempt /\ sv[r].text_src.shot = sv[r].shots

\* the last permitted cycle of a call with retries has clicked submit, every
\* earlier cycle having clicked too
C1_Witness ==
  \E r \in Runs :
    /\ pc[r] = "sv_probe"
    /\ sv[r].max_attempts >= 2
    /\ sv[r].attempt = sv[r].max_attempts - 1
    /\ sv[r].clicks = sv[r].max_attempts
    /\ sv[r].text_src.cycle = sv[r].attempt

\* a cycle whose cleaned text is shorter than four characters
ShortCycle(r) ==
  /\ InCycle(r)
  /\ sv[r].text_src.cycle = sv[r].attempt
  /\ Len(sv[r].captcha_text) < MinCaptchaLen

\* C2: in a cycle whose cleaned text is shorter than 4 the CAPTCHA input is
\* not filled and submit is not clicked: the cycle goes from the length test
\* straight to its end; the cycle is counted, the cycles used so far being
\* its index plus one.
C2_ShortTextNotSubmitted ==
  \A r \in Runs :
    ShortCycle(r) =>
      /\ pc[r] \in {"sv_len", "sv_next"}
      /\ sv[r].cycle_fills = 0
      /\ sv[r].cycle_clicks = 0
      /\ sv[r].iter = sv[r].attempt + 1

\* a three-character text ended the second cycle, after a first cycle that
\* did submit
C2_Witness ==
  \E r \in Runs :
    /\ ShortCycle(r)
    /\ pc[r] = "sv_next"
    /\ Len(sv[r].captcha_text) = MinCaptchaLen - 1
    /\ sv[r].attempt = 1
    /\ sv[r].clicks = 1

AfterTry(r) == pc[r] \in {"finally", "pw_exit", "scrape_done", "rendered"}

\* C3: once the solver has used up its attempts and returned False,
\* scrape_case_details raises and returns no record, extract_case_data is not
\* called, and the handler renders found = False with status "Technical
\* failure".
C3_ExhaustedIsFatal ==
  \A r \in Runs :
    hist[r].solver = "exhausted" =>
      /\ sc[r].captcha_ok = FALSE
      /\ hist[r].extract = "not called"
      /\ pc[r] = "captcha_result" \/ AfterTry(r)
      /\ AfterTry(r) => sc[r].exc # <<>> /\ sc[r].ret = NoResults
      /\ pc[r] = "rendered" =>
           results[r].found = FALSE /\ results[r].status = <<"Technical failure">>

C3_Witness ==
  \E r \in Runs :
    /\ hist[r].solver = "exhausted"
    /\ pc[r] = "rendered"
    /\ results[r].found = FALSE

\* C4: a browser that was launched does not stay open: each one is eventually
\* closed, and when scrape_case_details has ended, by return or by exception,
\* its browser has been closed by browser.close() if the page was created,
\* and ended with the Playwright driver if new_page itself failed.
C4_BrowserAlwaysReleased ==
  /\ [](\A r \in Runs :
          pc[r] \in {"scrape_done", "rendered"} /\ sc[r].browser # 0 =>
            browsers[sc[r].browser] = IF sc[r].page # 0 THEN "closed" ELSE "killed")
  /\ \A b \in BrowserIds : (browsers[b] = "open") ~> (browsers[b] # "open")

\* a scrape that failed on the CAPTCHA has ended with its browser closed
C4_Witness ==
  \E r \in Runs :
    /\ pc[r] = "scrape_done"
    /\ sc[r].exc = <<"CAPTCHA not solved">>
    /\ sc[r].browser # 0
    /\ browsers[sc[r].browser] = "closed"

\* the posted form is one the handler has to reject: a blank case number or
\* case type, or a filing year that is not the decimal numeral of a year in
\* [1951, current year]
InvalidRequest(f) ==
  \/ Strip(f.case_number) = <<>>
  \/ Strip(f.case_type) = <<>>
  \/ ~\E y \in MinYear..CurrentYear : Strip(f.filing_year) = Digits(y)

\* C5: a request with a blank case number or case type, or with a filing year
\* that is no integer or lies outside [1951, current year], is redirected:
\* scrape_case_details is not called, no browser is launched, no page is
\* created and nothing is rendered.
C5_InvalidRejected ==
  \A r \in Runs :
    pc[r] # "idle" /\ InvalidRequest(form[r]) =>
      /\ pc[r] = "redirected"
      /\ hd[r].errors # <<>>
      /\ ~hist[r].scrape_called
      /\ sc[r].browser = 0 /\ sc[r].page = 0
      /\ \A p \in PageIds : pages[p].gotos = 0
      /\ results[r] = NoResults

\* the year after the current one, with the other fields in order, was rejected
C5_Witness ==
  \E r \in Runs :
    /\ pc[r] = "redirected"
    /\ Strip(form[r].case_number) # <<>>
    /\ Strip(form[r].case_type) # <<>>
    /\ form[r].filing_year = Digits(CurrentYear + 1)

TextFields(rec) ==
  <<rec.parties, rec.next_hearing_date, rec.last_hearing_date, rec.court_no, rec.status>>

\* C6: every rendered record with found = True has parties, next_hearing_date,
\* last_hearing_date, court_no and status that are neither None nor the
\* empty string.
C6_FoundFieldsPopulated ==
  \A r \in Runs :
    results[r].found =>
      \A i \in 1..Len(TextFields(results[r])) :
        TextFields(results[r])[i] # PyNone /\ TextFields(results[r])[i] # <<>>

\* C7: once extract_case_data has been called, a cell or anchor that cannot
\* be read does not make it raise: the scrape ends with a record that has
\* found = True.
C7_FieldDefectNeverAborts ==
  \A r \in Runs :
    /\ hist[r].extract # "raised"
    /\ hist[r].extract # "not called" /\ pc[r] = "rendered" => results[r].found

FatalTimeouts == {"search goto", "search idle", "results idle"}
IntermediateTimeouts == {"intermediate goto", "intermediate idle"}

C9_ReturnNavigation ==
  \A r \in Runs :
    /\ hist[r].back = "ok" /\ pc[r] = "gp_done" =>
         pages[sc[r].page].url = gp[r].current_url
    /\ hist[r].back = "ok" /\ pc[r] \in {"gp_done", "ex_return"} =>
         pages[sc[r].page].url = hist[r].url_at_extract
    /\ hist[r].back = "failed" =>
         /\ hist[r].gp \in {"running", "returned"}
         /\ hist[r].extract \in {"running", "returned"}
         /\ pc[r] = "gp_done" => gp[r].actual_pdf_url = hist[r].resolved
         /\ pc[r] = "ex_return" => ex[r].pdf_url = hist[r].resolved
         /\ AfterTry(r) => sc[r].exc = <<>> /\ sc[r].ret.pdf_url = hist[r].resolved
         /\ pc[r] = "rendered" => results[r].pdf_url = hist[r].resolved

\* the return navigation failed, leaving the page on the intermediate URL, and
\* the resolved PDF address was returned all the same
C9_Witness ==
  \E r \in Runs :
    /\ pc[r] = "ex_return"
    /\ hist[r].back = "failed"
    /\ hist[r].resolved = <<DefaultBase, "/", "f">>
    /\ ex[r].pdf_url = hist[r].resolved
    /\ pages[sc[r].page].url # hist[r].url_at_extract

\* C10: when the results page has no PDF anchor, get_actual_pdf_url is not
\* called, pdf_url is None, and the page has not navigated: its URL is the
\* one it had when extraction began and the only goto it has seen is the one
\* that loaded the search page.
C10_NoAnchorNoNavigation ==
  \A r \in Runs :
    hist[r].anchor = "absent" =>
      /\ hist[r].gp = "not called"
      /\ hist[r].forward = "not tried" /\ hist[r].back = "not tried"
      /\ pages[sc[r].page].url = hist[r].url_at_extract
      /\ pages[sc[r].page].gotos = 1
      /\ pc[r] = "ex_return" => ex[r].pdf_url = PyNone
      /\ AfterTry(r) => sc[r].exc = <<>> /\ sc[r].ret.found /\ sc[r].ret.pdf_url = PyNone
      /\ pc[r] = "rendered" => results[r].found /\ results[r].pdf_url = PyNone

C10_Witness ==
  \E r \in Runs :
    /\ hist[r].anchor = "absent"
    /\ pc[r] = "rendered"
    /\ results[r].found
    /\ results[r].pdf_url = PyNone

\* the address the claim gives to an href h under base URL B
ResolvedUnder(B, h) ==
  IF Truthy(h) /\ StartsWith(h, <<"/">>) THEN B \o h
  ELSE IF Truthy(h) /\ ~StartsWith(h, <<"h", "t", "t", "p">>) THEN B \o <<"/">> \o h
  ELSE h

\* C11: under every configured base URL B, the intermediate href that is
\* navigated to and the PDF href that is returned are B followed by the href
\* when it starts with "/", B + "/" + href when it is neither absolute nor
\* root-relative, and the href itself otherwise.
C11_ResolvedAgainstBaseUrl ==
  \A r \in Runs :
    /\ pc[r] = "gp_goto" =>
         gp[r].intermediate_url = ResolvedUnder(BASE_URL, ex[r].intermediate_url)
    /\ hist[r].resolved \in {ResolvedUnder(BASE_URL, h) : h \in Hrefs}

\* extract_case_data's reading of the dates cell on its own, the cell holding
\* any text of up to MaxDatesLen tokens (the three labels, blank, newline, an
\* other character) or one of the longer examples
MaxDatesLen == 5
DatesTokens == {NextLabel, LastLabel, CourtLabel, " ", "\n", "x"}

\* every text of at most n of the given tokens
RECURSIVE TextsUpTo(_, _)
TextsUpTo(tokens, n) ==
  IF n = 0 THEN {<<>>}
  ELSE LET shorter == TextsUpTo(tokens, n - 1)
       IN shorter \cup {Append(s, t) : s \in shorter, t \in tokens}

DatesExamples ==
  {<<NextLabel, " ", "1", "2", ".", "0", "3", ".", "2", "0", "2", "4", " ", " ",
     LastLabel, " ", "1", "0", ".", "0", "1", ".", "2", "0", "2", "4", " ", " ",
     CourtLabel, " ", "5">>,
   <<NextLabel, "x", "\n", "x", LastLabel, CourtLabel>>,
   <<NextLabel, "x", LastLabel, "x", "\n", "x", CourtLabel, "x">>}

AllDatesTexts == TextsUpTo(DatesTokens, MaxDatesLen) \cup DatesExamples

DatesInit ==
  /\ BASE_URL = <<DefaultBase>>
  /\ active = {1}
  /\ browsers = [b \in BrowserIds |-> IF b = 1 THEN "open" ELSE "none"]
  /\ pages = [p \in PageIds |->
                IF p = 1
                  THEN [BlankPage EXCEPT !.browser = 1, !.gotos = 1, !.submitted = TRUE,
                                         !.url = <<DefaultBase, "/app/case-results">>,
                                         !.form = Post(<<"7">>, <<"W">>, Digits(MinYear))]
                  ELSE BlankPage]
  /\ pc = [r \in Runs |-> IF r = 1 THEN "ex_parties" ELSE "idle"]
  /\ form = [r \in Runs |-> IF r = 1 THEN Post(<<"7">>, <<"W">>, Digits(MinYear)) ELSE NoForm]
  /\ hd = [r \in Runs |->
             IF r = 1
               THEN [case_number |-> <<"7">>, case_type |-> <<"W">>,
                     filing_year |-> Digits(MinYear), errors |-> <<>>]
               ELSE InitHd]
  /\ results = [r \in Runs |-> NoResults]
  /\ sc = [r \in Runs |->
             IF r = 1 THEN [InitSc EXCEPT !.browser = 1, !.page = 1, !.captcha_ok = TRUE]
             ELSE InitSc]
  /\ sv = [r \in Runs |-> InitSv]
  /\ ex = [r \in Runs |-> InitEx]
  /\ gp = [r \in Runs |-> InitGp]
  /\ hist = [r \in Runs |->
               IF r = 1 THEN [InitHist EXCEPT !.scrape_called = TRUE, !.solver = "solved"]
               ELSE InitHist]

DatesNext ==
  \/ \E r \in Runs : ReadParties(r)
  \/ \E r \in Runs : ReadDatesFrom(r, AllDatesTexts)
  \/ \E r \in Runs : FindPdfLink(r)
  \/ \E r \in Runs : ExtractReturn(r)

DatesSpec == DatesInit /\ [][DatesNext]_vars

\* the tokens strictly between positions i and j are blanks, then characters
\* other than a newline, then blanks
Gap(s, i, j) ==
  \E a \in (i + 1)..j : \E b \in a..j :
    /\ \A n \in (i + 1)..(a - 1) : s[n] \in Whitespace
    /\ \A n \in a..(b - 1) : s[n] # "\n"
    /\ \A n \in b..(j - 1) : s[n] \in Whitespace

\* where the three labels stand, in order, when s matches the pattern
LabelTriples(s) ==
  {t \in (1..Len(s)) \X (1..Len(s)) \X (1..Len(s)) :
     /\ t[1] < t[2] /\ t[2] < t[3]
     /\ s[t[1]] = NextLabel /\ s[t[2]] = LastLabel /\ s[t[3]] = CourtLabel
     /\ Gap(s, t[1], t[2]) /\ Gap(s, t[2], t[3])}
MatchesPattern(s) == LabelTriples(s) # {}

\* the dates cell has been read and extract_case_data is still running
DatesRead(r) == pc[r] \in {"ex_pdf", "ex_href", "ex_return"}

\* C12: when the text of the dates cell does not match the three-label
\* pattern, the fallback "Not available" of a missing cell included, the
\* next date, last date and court number are all "Not available", and the
\* record extract_case_data returns carries them with found = True.
C12_NoMatchAllNotAvailable ==
  /\ [](\A r \in Runs :
          DatesRead(r) /\ ~MatchesPattern(ex[r].dates) =>
            /\ ex[r].next_date = NotAvailable
            /\ ex[r].last_date = NotAvailable
            /\ ex[r].court_no = NotAvailable)
  /\ [][\A r \in Runs :
          pc[r] = "ex_return" /\ pc'[r] = "finally" /\ ~MatchesPattern(ex[r].dates) =>
            /\ sc'[r].ret.found
            /\ sc'[r].ret.next_hearing_date = NotAvailable
            /\ sc'[r].ret.last_hearing_date = NotAvailable
            /\ sc'[r].ret.court_no = NotAvailable]_vars

\* the labels stand in order but a value runs over a line break: no match
C12_Witness ==
  \E r \in Runs :
    /\ pc[r] = "ex_return"
    /\ ex[r].dates = <<NextLabel, "x", "\n", "x", LastLabel, CourtLabel>>
    /\ CaseRecord(r).found
    /\ CaseRecord(r).court_no = NotAvailable

\* the part of text t before its first newline
FirstLine(t) ==
  SubSeq(t, 1, CHOOSE n \in 0..Len(t) :
                 /\ \A k \in 1..n : t[k] # "\n"
                 /\ n = Len(t) \/ t[n + 1] = "\n")

\* the labels the search settles on: the leftmost NEXT DATE: after which the
\* pattern matches, then the nearest Last Date:, then the nearest COURT NO:
MatchedLabels(s) ==
  CHOOSE t \in LabelTriples(s) :
    \A u \in LabelTriples(s) :
      \/ t[1] < u[1]
      \/ t[1] = u[1] /\ t[2] < u[2]
      \/ t[1] = u[1] /\ t[2] = u[2] /\ t[3] <= u[3]

\* C13: when the text of the dates cell matches the pattern, the next date
\* is the trimmed text between NEXT DATE: and Last Date:, the last date the
\* trimmed text between Last Date: and COURT NO:, the court number the
\* trimmed rest of the line after COURT NO:; an empty one is "NA" for the
\* next date and "Not available" for the other two.
C13_MatchedFieldsTrimmed ==
  \A r \in Runs :
    DatesRead(r) /\ MatchesPattern(ex[r].dates) =>
      LET s == ex[r].dates
          t == MatchedLabels(s)
          after1 == Strip(SubSeq(s, t[1] + 1, t[2] - 1))
          after2 == Strip(SubSeq(s, t[2] + 1, t[3] - 1))
          after3 == Strip(FirstLine(LStrip(SubSeq(s, t[3] + 1, Len(s)))))
      IN /\ ex[r].next_date = IF after1 = <<>> THEN NA ELSE after1
         /\ ex[r].last_date = IF after2 = <<>> THEN NotAvailable ELSE after2
         /\ ex[r].court_no = IF after3 = <<>> THEN NotAvailable ELSE after3

\* "NEXT DATE: 12.03.2024  Last Date: 10.01.2024  COURT NO: 5"
C13_Witness ==
  \E r \in Runs :
    /\ pc[r] = "ex_return"
    /\ Len(ex[r].dates) = 31
    /\ ex[r].next_date = <<"1", "2", ".", "0", "3", ".", "2", "0", "2", "4">>
    /\ ex[r].last_date = <<"1", "0", ".", "0", "1", ".", "2", "0", "2", "4">>
    /\ ex[r].court_no = <<"5">>

\* two requests that passed validation are scraped by two threads at once;
\* the site answers each read with one sample value or a failure
TwoRuns == {1, 2}
RequestOf(r) ==
  IF r = 1 THEN Post(<<"7">>, <<"W">>, Digits(MinYear))
  ELSE Post(<<" ", "8">>, <<"W">>, <<" ">> \o Digits(CurrentYear))

ConcInit ==
  /\ BASE_URL = <<DefaultBase>>
  /\ active = TwoRuns
  /\ browsers = [b \in BrowserIds |-> "none"]
  /\ pages = [p \in PageIds |-> BlankPage]
  /\ pc = [r \in Runs |-> IF r \in TwoRuns THEN "launch" ELSE "idle"]
  /\ form = [r \in Runs |-> IF r \in TwoRuns THEN RequestOf(r) ELSE NoForm]
  /\ hd = [r \in Runs |->
             IF r \in TwoRuns
               THEN [case_number |-> Strip(RequestOf(r).case_number),
                     case_type |-> Strip(RequestOf(r).case_type),
                     filing_year |-> Strip(RequestOf(r).filing_year),
                     errors |-> <<>>]
               ELSE InitHd]
  /\ results = [r \in Runs |-> NoResults]
  /\ sc = [r \in Runs |-> InitSc]
  /\ sv = [r \in Runs |-> InitSv]
  /\ ex = [r \in Runs |-> InitEx]
  /\ gp = [r \in Runs |-> InitGp]
  /\ hist = [r \in Runs |-> InitHist]

ConcNext ==
  \/ \E r \in Runs : Launch(r)
  \/ \E r \in Runs : NewPage(r)
  \/ \E r \in Runs : GotoSearch(r)
  \/ \E r \in Runs : WaitSearch(r)
  \/ \E r \in Runs : FillForm(r)
  \/ \E r \in Runs : HandleCaptcha(r)
  \/ \E r \in Runs : SolverFor(r)
  \/ \E r \in Runs : Screenshot(r)
  \/ \E r \in Runs : RecognizeFrom(r, {<<"a", "b", "1", "2">>})
  \/ \E r \in Runs : CheckLength(r)
  \/ \E r \in Runs : FillCaptcha(r)
  \/ \E r \in Runs : FindSubmit(r)
  \/ \E r \in Runs : ClickSubmit(r)
  \/ \E r \in Runs : Probe(r)
  \/ \E r \in Runs : NextAttempt(r)
  \/ \E r \in Runs : CaptchaResult(r)
  \/ \E r \in Runs : WaitResults(r)
  \/ \E r \in Runs : ReadPartiesFrom(r, {NotAvailable})
  \/ \E r \in Runs : ReadDatesFrom(r, {NotAvailable})
  \/ \E r \in Runs : FindPdfLink(r)
  \/ \E r \in Runs : ReadIntermediateHrefFrom(r, {<<"/", "f">>})
  \/ \E r \in Runs : GpEnter(r)
  \/ \E r \in Runs : GpGoto(r)
  \/ \E r \in Runs : GpWait(r)
  \/ \E r \in Runs : GpFindPdf(r)
  \/ \E r \in Runs : GpReadHrefFrom(r, {<<"/", "f">>})
  \/ \E r \in Runs : GpBackGoto(r)
  \/ \E r \in Runs : GpBackWait(r)
  \/ \E r \in Runs : GpDone(r)
  \/ \E r \in Runs : ExtractReturn(r)
  \/ \E r \in Runs : Finally(r)
  \/ \E r \in Runs : PlaywrightExit(r)
  \/ \E r \in Runs : SearchFinish(r)

ConcSpec == ConcInit /\ [][ConcNext]_vars

\* the request of run r as the handler passed it to scrape_case_details
OwnRequest(r) ==
  [case_number |-> Strip(form[r].case_number), case_type |-> Strip(form[r].case_type),
   filing_year |-> Strip(form[r].filing_year)]
OfRequest(rec, r) ==
  /\ rec.case_number = OwnRequest(r).case_number
  /\ rec.case_type = OwnRequest(r).case_type
  /\ rec.filing_year = OwnRequest(r).filing_year

\* C14: two scrapes running at once never hold the same browser or the same
\* page; a run's page belongs to its own browser and carries no form values
\* but its own; a step changes no page but the page of the run that takes
\* it; the record a run returns, and the one rendered for it, name its own
\* case number, case type and filing year.
C14_RunsShareNothing ==
  /\ [](\A r \in Runs : \A q \in Runs \ {r} :
          /\ sc[r].browser # 0 => sc[r].browser # sc[q].browser
          /\ sc[r].page # 0 => sc[r].page # sc[q].page)
  /\ [](\A r \in Runs :
          sc[r].page # 0 =>
            /\ pages[sc[r].page].browser = sc[r].browser
            /\ pages[sc[r].page].form \in {NoForm, OwnRequest(r)}
            /\ hist[r].solver # "not called" => pages[sc[r].page].form = OwnRequest(r))
  /\ [](\A r \in Runs :
          /\ sc[r].ret # NoResults => OfRequest(sc[r].ret, r)
          /\ pc[r] = "rendered" => OfRequest(results[r], r))
  /\ [][\A p \in PageIds :
          pages'[p] # pages[p] => \E r \in Runs : pc'[r] # pc[r] /\ sc'[r].page = p]_vars

\* one run has returned its record while the other, on its own page, has
\* filled the CAPTCHA input and clicked submit
C14_Witness ==
  \E r \in Runs : \E q \in Runs \ {r} :
    /\ pc[r] = "finally" /\ sc[r].ret # NoResults /\ sc[r].ret.found
    /\ pc[q] = "sv_probe"
    /\ sc[r].page # sc[q].page
    /\ pages[sc[q].page].submitted
    /\ pages[sc[q].page].form = OwnRequest(q)
    /\ sc[r].ret.case_number # OwnRequest(q).case_number

\* the first cycle of solve_captcha_with_ocr on its own, the OCR engine
\* returning any text of up to MaxOcrLen characters: letters, a digit, blank,
\* newline, punctuation
MaxOcrLen == 5
OcrChars == {"a", "Z", "1", " ", "\n", "-"}
AllRawOutputs == TextsUpTo(OcrChars, MaxOcrLen)

OcrInit ==
  /\ SolverInit
  /\ sv[1].max_attempts = DefaultMaxAttempts

OcrNext ==
  \/ \E r \in Runs : SolverFor(r)
  \/ \E r \in Runs : Screenshot(r)
  \/ \E r \in Runs : RecognizeFrom(r, AllRawOutputs)
  \/ \E r \in Runs : CheckLength(r)
  \/ \E r \in Runs : FillCaptcha(r)
  \/ \E r \in Runs : FindSubmit(r)
  \/ \E r \in Runs : ClickSubmit(r)
  \/ \E r \in Runs : Probe(r)

OcrSpec == OcrInit /\ [][OcrNext]_vars

\* the i-th position of raw, counted from 1, that holds an alphanumeric character
AlnumPositions(raw) == {i \in 1..Len(raw) : IsAlnum(raw[i])}
NthAlnum(raw, n) ==
  CHOOSE i \in AlnumPositions(raw) : Cardinality({j \in AlnumPositions(raw) : j < i}) = n - 1

\* out is raw with exactly the non-alphanumeric characters taken out
IsRawWithoutNonAlnum(out, raw) ==
  /\ Len(out) = Cardinality(AlnumPositions(raw))
  /\ \A n \in 1..Len(out) : out[n] = raw[NthAlnum(raw, n)]

\* C15: whatever the OCR engine returned, the text that is length-checked and
\* filled is that output with exactly its non-alphanumeric characters
\* removed, the others in their order; what stands in the CAPTCHA input is
\* made of alphanumeric characters only.
C15_FilledTextIsAlnum ==
  /\ \A r \in Runs :
       TextInUse(r) => IsRawWithoutNonAlnum(sv[r].captcha_text, sv[r].ocr_raw)
  /\ \A p \in PageIds :
       \A i \in 1..Len(pages[p].captcha_value) : IsAlnum(pages[p].captcha_value[i])
  /\ \A r \in Runs :
       pc[r] \in {"sv_button", "sv_click", "sv_probe"} =>
         pages[sc[r].page].captcha_value = sv[r].captcha_text

\* "a-Z11" was read and "aZ11" filled
C15_Witness ==
  \E r \in Runs :
    /\ pc[r] = "sv_button"
    /\ sv[r].ocr_raw = <<"a", "-", "Z", "1", "1">>
    /\ pages[sc[r].page].captcha_value = <<"a", "Z", "1", "1">>

\* C16: once extract_case_data has been entered, the submit control of the
\* run's page has been clicked, the form having been filled before; so too
\* when handle_captcha found no CAPTCHA image or input.
C16_SubmittedBeforeExtract ==
  \A r \in Runs :
    hist[r].extract # "not called" =>
      /\ pages[sc[r].page].form = OwnRequest(r)
      /\ pages[sc[r].page].submitted

\* C17: the solver returns True only from the probe of a cycle in which a
\* text of at least four characters, recognized in that cycle, was filled and
\* submit was clicked, the probe finding the CAPTCHA input gone or the results
\* table there; a probe that finds the input still there and no table makes
\* the cycle fail, and the solver then starts the next cycle or, none being
\* left, returns False.
C17_SuccessOnlyOnAcceptedProbe ==
  /\ [](\A r \in Runs :
          /\ hist[r].solver = "solved" =>
               /\ sc[r].captcha_ok
               /\ hist[r].probe = "accepted"
               /\ pages[sc[r].page].submitted
               /\ Len(pages[sc[r].page].captcha_value) >= MinCaptchaLen
          /\ hist[r].solver \in {"exhausted", "no button"} => ~sc[r].captcha_ok
          /\ hist[r].probe = "rejected" =>
               /\ ~sc[r].captcha_ok
               /\ hist[r].solver \in {"running", "exhausted"}
               /\ hist[r].solver = "running" =>
                    pc[r] \in {"sv_next", "sv_for"} /\ sv[r].cycle_clicks = 1)
  /\ [][\A r \in Runs :
          /\ hist'[r].solver = "solved" /\ hist[r].solver # "solved" =>
               /\ pc[r] = "sv_probe"
               /\ hist[r].probe = "not taken"
               /\ sv[r].cycle_fills = 1 /\ sv[r].cycle_clicks = 1
               /\ Len(sv[r].captcha_text) >= MinCaptchaLen
               /\ sv[r].text_src.cycle = sv[r].attempt
               /\ pages[sc[r].page].captcha_value = sv[r].captcha_text
          /\ pc[r] = "sv_for" /\ pc'[r] # "sv_for" /\ hist[r].probe = "rejected" =>
               \/ pc'[r] = "sv_shot" /\ sv'[r].attempt = sv[r].attempt + 1
               \/ hist'[r].solver = "exhausted" /\ ~sc'[r].captcha_ok]_vars

\* a solver called with retries has returned True after an accepted probe
C17_Witness ==
  \E r \in Runs :
    /\ pc[r] = "captcha_result"
    /\ hist[r].solver = "solved"
    /\ hist[r].probe = "accepted"
    /\ sc[r].captcha_ok
    /\ pages[sc[r].page].submitted
    /\ pages[sc[r].page].captcha_value = <<"a", "b", "Z", "d", "e">>

\* C18: when the submit control is not found in a cycle whose text has at
\* least four characters, the solver returns False from that cycle: the
\* CAPTCHA input has been filled with the text, nothing was clicked in the
\* cycle, the page is left as it is, and no further cycle is started, however
\* many were left.
C18_NoButtonEndsSolver ==
  /\ [](\A r \in Runs :
          hist[r].solver = "no button" =>
            /\ ~sc[r].captcha_ok
            /\ ~InCycle(r) /\ pc[r] # "sv_for"
            /\ sv[r] = InitSv
            /\ Len(pages[sc[r].page].captcha_value) >= MinCaptchaLen)
  /\ [][\A r \in Runs :
          hist'[r].solver = "no button" /\ hist[r].solver # "no button" =>
            /\ pc[r] = "sv_button" /\ pc'[r] = "captcha_result"
            /\ Len(sv[r].captcha_text) >= MinCaptchaLen
            /\ sv[r].cycle_fills = 1 /\ sv[r].cycle_clicks = 0
            /\ pages[sc[r].page].captcha_value = sv[r].captcha_text
            /\ pages' = pages
            /\ hist'[r].left_unused = sv[r].max_attempts - (sv[r].attempt + 1)]_vars

\* the button was missing in the first cycle of a call with retries: two
\* cycles were left and the solver returned False with the input filled
C18_Witness ==
  \E r \in Runs :
    /\ pc[r] = "captcha_result"
    /\ hist[r].solver = "no button"
    /\ hist[r].left_unused = 2
    /\ ~sc[r].captcha_ok
    /\ ~pages[sc[r].page].submitted
    /\ Len(pages[sc[r].page].captcha_value) >= MinCaptchaLen

\* C19: an exception raised inside a cycle, by the screenshot, the OCR, the
\* fill, the button lookup, the click or the probe, stays inside the solver:
\* nothing is raised to the caller, the cycle is over and counted, and the
\* solver goes on to the next cycle, which captures the image anew, or, when
\* no cycle is left, returns False.
C19_CycleExceptionContained ==
  /\ [](\A r \in Runs :
          /\ hist[r].solver # "not called" /\ (InCycle(r) \/ pc[r] \in {"sv_for", "captcha_result"})
               => sc[r].exc = <<>>
          /\ sv[r].cycle_exc =>
               /\ pc[r] \in {"sv_next", "sv_for"}
               /\ hist[r].solver = "running"
               /\ ~sc[r].captcha_ok
               /\ sv[r].iter = sv[r].attempt + 1
          /\ pc[r] = "sv_ocr" =>
               sv[r].img_bytes.cycle = sv[r].attempt /\ sv[r].img_bytes.shot = sv[r].shots)
  /\ [][\A r \in Runs :
          pc[r] = "sv_for" /\ pc'[r] # "sv_for" /\ sv[r].cycle_exc =>
            IF sv[r].iter < sv[r].max_attempts
              THEN /\ pc'[r] = "sv_shot"
                   /\ sv'[r].attempt = sv[r].attempt + 1
                   /\ ~sv'[r].cycle_exc
              ELSE /\ pc'[r] = "captcha_result"
                   /\ hist'[r].solver = "exhausted"
                   /\ ~sc'[r].captcha_ok]_vars

\* the fill of the first cycle went through, the lookup of the button or the
\* click raised, and the second cycle has taken its own screenshot
C19_Witness ==
  \E r \in Runs :
    /\ pc[r] = "sv_ocr"
    /\ sv[r].attempt = 1
    /\ sv[r].fills = 1 /\ sv[r].clicks = 0
    /\ sv[r].img_bytes.cycle = 1 /\ sv[r].shots = 2
    /\ sc[r].exc = <<>>

\* C20: when get_actual_pdf_url has returned, by its return statement or
\* through its except clause with None, and the forward goto to the
\* intermediate page had been issued, the goto back to the remembered URL has
\* been issued as well.
C20_ReturnAlwaysAttempted ==
  \A r \in Runs :
    hist[r].gp \in {"returned", "raised"} /\ hist[r].forward # "not tried" =>
      hist[r].back # "not tried"

====
